---- MODULE Spec2Model ----
(***************************************************************************)
(* Model of tg-email-bot (src/bot.py): a Telegram bot that keeps, in one   *)
(* SQLite database, a table of registered emails (user) and a table of     *)
(* lists (list), and three asyncio handlers working on them:               *)
(*   register_email  /register <email>                                     *)
(*   create_list     inline query -> a new row of table list               *)
(*   add_mail        button press -> the presser's email appended to a row *)
(* Text (Python str) is a sequence of one-character strings.  Handlers are  *)
(* coroutines on one event loop: the code between two awaits runs as one    *)
(* atomic step.  main() builds the Application without concurrent_updates   *)
(* and registers blocking handlers: updates wait in the update queue and    *)
(* each one's handler runs to its end before the next update is taken.      *)
(***************************************************************************)
EXTENDS Integers, Sequences, FiniteSets, TLC

\* ---------------------------------------------------------------- bounds
\* Number of updates received (handler invocations and updates waiting).
MaxHandlers == 3
\* Number of updates waiting in the update queue at the same time.
MaxQueued == 1

\* ---------------------------------------------------------------- inputs
UserIds == {1, 2}
\* Normalized emails as validate_email hands them over.
Emails == { <<"a">>, <<"b">> }
\* Inline-query texts: a plain title (with an email as a substring), a
\* two-line title repeating a line that is also somebody's email, and a title
\* ending in a line break.
Titles == { <<"t", "a">>, <<"a", "\n", "a">>, <<"t", "\n">> }
\* The empty inline query.
EmptyText == << >>
\* Python's None (no string of characters equals it).
None == << "<None>" >>
\* get_list's `raise ValueError(...)`.
ValueError == << "<ValueError>" >>
\* List ids a button press carries (callback data add_mail_<digits>).
ListIdInputs == {1, 2}

\* db: the database as the bot's one connection sees it; disk: the database
\* as committed to the file mailbot.db; update_queue: the updates received and
\* not yet taken by a handler; handlers: the handler invocations in the order
\* they started; message: the text shown per list id; codec: the text format of a
\* list exercised on its own (entries stored, text built, lines read back).
VARIABLES db, disk, update_queue, handlers, message, codec

vars == << db, disk, update_queue, handlers, message, codec >>

\* ---------------------------------------------------------------- str
\* Line boundaries of str.splitlines() among the characters used here.
LineBreaks == { "\n", "\r" }

RECURSIVE SplitFrom(_, _, _)
\* str.splitlines() from position i on, cur being the line read so far.
SplitFrom(s, i, cur) ==
    IF i > Len(s)
    THEN IF cur = << >> THEN << >> ELSE << cur >>
    ELSE IF s[i] \in LineBreaks
         THEN LET step == IF s[i] = "\r" /\ i < Len(s) /\ s[i + 1] = "\n" THEN 2 ELSE 1
              IN  << cur >> \o SplitFrom(s, i + step, << >>)
         ELSE SplitFrom(s, i + 1, Append(cur, s[i]))

\* list_.splitlines()
SplitLines(s) == SplitFrom(s, 1, << >>)

\* Mutant of InLines: `email in list_`, a substring test on the raw text.
InLines_substring(email, list_) ==
    \E i \in 1..Len(list_) :
        /\ i + Len(email) - 1 <= Len(list_)
        /\ SubSeq(list_, i, i + Len(email) - 1) = email

\* email in list_.splitlines()
InLines(email, list_) == \E i \in 1..Len(SplitLines(list_)) : SplitLines(list_)[i] = email

\* Mutant of NewList: f"{list_}{email}", the line break forgotten.
NewList_glued(list_, email) == list_ \o email

\* Mutant of NewList: the email is put in front of the text, f"{email}\n{list_}".
NewList_prepended(list_, email) == email \o << "\n" >> \o list_

\* f"{list_}\n{email}"
NewList(list_, email) == list_ \o << "\n" >> \o email

\* ---------------------------------------------------------------- DB
\* Mutant of Lastrowid: the largest rowid already in the table (the id of the
\* previous insertion) instead of the new row's.
Lastrowid_stale(rows) ==
    IF rows = {} THEN 1
    ELSE CHOOSE m \in { r.id : r \in rows } : \A r \in rows : r.id <= m

\* sqlite's rowid for INSERT into an INTEGER PRIMARY KEY table: one more than
\* the largest rowid in the table, 1 for an empty table.
Lastrowid(rows) ==
    IF rows = {} THEN 1
    ELSE (CHOOSE m \in { r.id : r \in rows } : \A r \in rows : r.id <= m) + 1

\* Mutant of insert_user: INSERT OR IGNORE, which keeps an existing row.
insert_user_ignore(d, user_id, email) ==
    IF \E r \in d.user : r.id = user_id THEN d
    ELSE [d EXCEPT !.user = @ \cup { [id |-> user_id, email |-> email] }]

\* Mutant of insert_user: the row also goes into table list.
insert_user_into_list(d, user_id, email) ==
    [d EXCEPT !.user = { r \in @ : r.id # user_id } \cup { [id |-> user_id, email |-> email] },
              !.list = { r \in @ : r.id # user_id } \cup { [id |-> user_id, list |-> email] }]

\* DB.insert_user: INSERT OR REPLACE INTO user VALUES (?, ?)
insert_user(d, user_id, email) ==
    [d EXCEPT !.user = { r \in @ : r.id # user_id } \cup { [id |-> user_id, email |-> email] }]

\* DB.insert_list: INSERT INTO list(list) VALUES (?); returns the new id too.
insert_list(d, list_) ==
    LET id_ == Lastrowid(d.list)
    IN  [db |-> [d EXCEPT !.list = @ \cup { [id |-> id_, list |-> list_] }], id_ |-> id_]

\* Mutant of update_list: UPDATE list SET list=?, the WHERE clause forgotten.
update_list_all(d, list_id, new_list) ==
    [d EXCEPT !.list = { [r EXCEPT !.list = new_list] : r \in @ }]

\* DB.update_list: UPDATE list SET list=? WHERE id=?
update_list(d, list_id, new_list) ==
    [d EXCEPT !.list = { IF r.id = list_id THEN [r EXCEPT !.list = new_list] ELSE r : r \in @ }]

\* Mutant of get_email: an empty string instead of None without a row.
get_email_blank(d, user_id) ==
    LET rows == { r \in d.user : r.id = user_id }
    IN  IF rows = {} THEN << >> ELSE (CHOOSE r \in rows : TRUE).email

\* DB.get_email: the email of the user's row, None without a row.
get_email(d, user_id) ==
    LET rows == { r \in d.user : r.id = user_id }
    IN  IF rows = {} THEN None ELSE (CHOOSE r \in rows : TRUE).email

\* Mutant of get_list: the text of the table's first row (SELECT without the
\* WHERE clause) when the list has a row.
get_list_first_row(d, list_id) ==
    LET rows == { r \in d.list : r.id = list_id }
    IN  IF rows = {} THEN ValueError
        ELSE (CHOOSE r \in d.list : \A q \in d.list : r.id <= q.id).list

\* Mutant of get_list: an empty text instead of ValueError without a row.
get_list_blank(d, list_id) ==
    LET rows == { r \in d.list : r.id = list_id }
    IN  IF rows = {} THEN << >> ELSE (CHOOSE r \in rows : TRUE).list

\* DB.get_list: the text of the list's row; raises ValueError without a row.
get_list(d, list_id) ==
    LET rows == { r \in d.list : r.id = list_id }
    IN  IF rows = {} THEN ValueError ELSE (CHOOSE r \in rows : TRUE).list

\* self._conn.commit(): the file then holds all the connection has written,
\* changes left pending by an earlier failed commit included.
commit(d) == d

\* ---------------------------------------------------------------- handlers
\* An update: a /register message with its arguments' number and
\* validate_email's verdict on the first, an inline query with its text, or a
\* callback query add_mail_<list_id>.
Update(kind, user_id, nargs, text, list_id) ==
    [kind |-> kind, user_id |-> user_id, nargs |-> nargs, text |-> text, list_id |-> list_id]

RegisterCommand(user_id, nargs, validation) == Update("register_email", user_id, nargs, validation, 0)

InlineQuery(list_title) == Update("create_list", 0, 0, list_title, 0)

CallbackQuery(user_id, list_id) == Update("add_mail", user_id, 0, None, list_id)

\* The updates users send.  A /register without exactly one argument, or
\* with an argument that is no valid email, is answered the same way whoever
\* sends it.
Updates ==
    { RegisterCommand(u, 1, v) : u \in UserIds, v \in Emails }
        \cup { RegisterCommand(1, 1, None), RegisterCommand(1, 0, None) }
        \cup { InlineQuery(t) : t \in Titles \cup {EmptyText} }
        \cup { CallbackQuery(u, l) : u \in UserIds, l \in ListIdInputs }

\* One invocation of a handler: its kind, the await it is suspended at (pc),
\* its inputs, its local variables and how it ended; overlaps: whether its
\* update arrived while the update before it, a button press for the same
\* list, was not yet handled to its end.
Handler(kind, pc, user_id, list_id, email, list_, new_list, outcome) ==
    [kind |-> kind, pc |-> pc, user_id |-> user_id, list_id |-> list_id,
     email |-> email, list_ |-> list_, new_list |-> new_list, outcome |-> outcome,
     overlaps |-> Head(update_queue).overlaps]

\* The text format is not exercised on its own while the bot runs.
CodecIdle == [entries |-> << >>, stored |-> 0, text |-> None, lines |-> None]

\* The user tables a database file left by earlier runs can hold: at most
\* one row per user (id is the PRIMARY KEY).
UserTables ==
    { { [id |-> u, email |-> f[u]] : u \in { v \in UserIds : f[v] # None } } :
        f \in [UserIds -> Emails \cup {None}] }

\* The database files earlier runs can have left: any user table with no
\* list yet; user 1 registered and one list nobody has joined; both users
\* registered, a list user 1 has joined and a second list.  No row is ever
\* deleted, so the ids of the lists are 1..n.
Databases ==
    { [user |-> ut, list |-> {}] : ut \in UserTables }
        \cup { [user |-> { [id |-> 1, email |-> <<"a">>] },
                list |-> { [id |-> 1, list |-> <<"t", "a">>] }],
               [user |-> { [id |-> 1, email |-> <<"a">>], [id |-> 2, email |-> <<"b">>] },
                list |-> { [id |-> 1, list |-> NewList(<<"t", "a">>, <<"a">>)],
                           [id |-> 2, list |-> <<"a">>] }] }

\* DB.__init__ (CREATE TABLE IF NOT EXISTS): both tables hold what earlier
\* runs left, and the connection has nothing pending; no update has arrived
\* and no handler has run; the message of each list left by an earlier run
\* shows the list's text.
Init ==
    /\ db \in Databases
    /\ disk = db
    /\ update_queue = << >>
    /\ handlers = << >>
    /\ message = [l \in { r.id : r \in db.list } |-> (CHOOSE r \in db.list : r.id = l).list]
    /\ codec = CodecIdle

\* The handlers suspended at an await.
InFlight == { h \in 1..Len(handlers) : handlers[h].pc # "done" }

\* The update arrives while the update before it, a button press for the same
\* list, waits in the queue or has its handler suspended at an await.
Overlaps(update) ==
    /\ update.kind = "add_mail"
    /\ IF update_queue # << >>
       THEN LET last == update_queue[Len(update_queue)].update
            IN  last.kind = "add_mail" /\ last.list_id = update.list_id
       ELSE \E h \in InFlight : /\ handlers[h].kind = "add_mail"
                                 /\ handlers[h].list_id = update.list_id

\* An update arrives while the bot runs and waits in the update queue.
Receive(update) ==
    /\ Len(handlers) + Len(update_queue) < MaxHandlers
    /\ Len(update_queue) < MaxQueued
    /\ update_queue' = Append(update_queue, [update |-> update, overlaps |-> Overlaps(update)])
    /\ UNCHANGED << db, disk, handlers, message, codec >>

\* The Application takes the next update once the handler of the one before
\* has returned (no concurrent_updates, handlers block).
CanStart == update_queue # << >> /\ InFlight = {}

\* The update taken is this one.
Dispatched(update) == CanStart /\ Head(update_queue).update = update

\* register_email up to its await of reply_text.  nargs is len(context.args);
\* validation is validate_email's verdict: None for EmailNotValidError, else
\* the normalized email.  The user's id is read only for insert_user.
RegisterEmail(user_id, nargs, validation) ==
    /\ Dispatched(RegisterCommand(user_id, nargs, validation))
    /\ update_queue' = Tail(update_queue)
    /\ IF nargs # 1
       THEN /\ handlers' = Append(handlers,
                   Handler("register_email", "reply", 0, 0, None, None, None, "Usage"))
            /\ UNCHANGED << db, disk >>
       ELSE IF validation = None
       THEN /\ handlers' = Append(handlers,
                   Handler("register_email", "reply", 0, 0, None, None, None, "NotValid"))
            /\ UNCHANGED << db, disk >>
       ELSE /\ db' = insert_user(db, user_id, validation)
            /\ disk' = commit(db')
            /\ handlers' = Append(handlers,
                   Handler("register_email", "reply", user_id, 0, validation, None, None, "Registered"))
    /\ UNCHANGED << message, codec >>

\* create_list up to its await of inline_query.answer.
CreateList(list_title) ==
    /\ Dispatched(InlineQuery(list_title))
    /\ update_queue' = Tail(update_queue)
    /\ IF list_title = EmptyText
       THEN /\ handlers' = Append(handlers,
                   Handler("create_list", "done", 0, 0, None, list_title, None, "Ignored"))
            /\ UNCHANGED << db, disk, message, codec >>
       ELSE LET ins == insert_list(db, list_title)
            IN  /\ db' = ins.db
                /\ disk' = commit(db')
                /\ handlers' = Append(handlers,
                       Handler("create_list", "answer", 0, ins.id_, None, list_title, None, "Created"))
                /\ UNCHANGED << message, codec >>

\* register_email: `await update.message.reply_text(...)` returns or raises
\* telegram.error.TelegramError: the handler ends either way.
RegisterEmailReplied(h) ==
    /\ h \in InFlight
    /\ handlers[h].kind = "register_email" /\ handlers[h].pc = "reply"
    /\ handlers' = [handlers EXCEPT ![h].pc = "done"]
    /\ UNCHANGED << db, disk, update_queue, message, codec >>

\* create_list: `await update.inline_query.answer(...)` raises
\* telegram.error.TelegramError: the handler ends and no article is offered.
CreateListAnswerRaised(h) ==
    /\ h \in InFlight
    /\ handlers[h].kind = "create_list" /\ handlers[h].pc = "answer"
    /\ handlers' = [handlers EXCEPT ![h].pc = "done"]
    /\ UNCHANGED << db, disk, update_queue, message, codec >>

\* create_list: `await update.inline_query.answer(...)` returns; the article
\* offered carries the title as its text and the list's button.
CreateListAnswered(h) ==
    /\ h \in InFlight
    /\ handlers[h].kind = "create_list" /\ handlers[h].pc = "answer"
    /\ handlers' = [handlers EXCEPT ![h].pc = "done"]
    /\ message' = [l \in DOMAIN message \cup {handlers[h].list_id} |->
                      IF l = handlers[h].list_id THEN handlers[h].list_ ELSE message[l]]
    /\ UNCHANGED << db, disk, update_queue, codec >>

\* Mutant of AddMail: the list is looked up before the user's email.
AddMail_list_first(user_id, list_id) ==
    /\ Dispatched(CallbackQuery(user_id, list_id))
    /\ update_queue' = Tail(update_queue)
    /\ LET email == get_email(db, user_id)
           list_ == get_list(db, list_id)
           new_list == NewList(list_, email)
       IN  IF list_ = ValueError
           THEN /\ handlers' = Append(handlers,
                       Handler("add_mail", "done", user_id, list_id, None, None, None, "ListNotFound"))
                /\ UNCHANGED << db, disk >>
           ELSE IF email = None
           THEN /\ handlers' = Append(handlers,
                       Handler("add_mail", "alert", user_id, list_id, email, list_, None, "NotRegistered"))
                /\ UNCHANGED << db, disk >>
           ELSE IF InLines(email, list_)
           THEN /\ handlers' = Append(handlers,
                       Handler("add_mail", "alert", user_id, list_id, email, list_, None, "AlreadyPresent"))
                /\ UNCHANGED << db, disk >>
           ELSE /\ db' = update_list(db, list_id, new_list)
                /\ disk' = commit(db')
                /\ handlers' = Append(handlers,
                       Handler("add_mail", "edit", user_id, list_id, email, list_, new_list, "Success"))
    /\ UNCHANGED << message, codec >>

\* add_mail up to its first await.
AddMail(user_id, list_id) ==
    /\ Dispatched(CallbackQuery(user_id, list_id))
    /\ update_queue' = Tail(update_queue)
    /\ LET email == get_email(db, user_id)
           list_ == get_list(db, list_id)
           new_list == NewList(list_, email)
       IN  IF email = None
           THEN /\ handlers' = Append(handlers,
                       Handler("add_mail", "alert", user_id, list_id, email, None, None, "NotRegistered"))
                /\ UNCHANGED << db, disk >>
           ELSE IF list_ = ValueError
           THEN /\ handlers' = Append(handlers,
                       Handler("add_mail", "done", user_id, list_id, email, None, None, "ListNotFound"))
                /\ UNCHANGED << db, disk >>
           ELSE IF InLines(email, list_)
           THEN /\ handlers' = Append(handlers,
                       Handler("add_mail", "alert", user_id, list_id, email, list_, None, "AlreadyPresent"))
                /\ UNCHANGED << db, disk >>
           ELSE /\ db' = update_list(db, list_id, new_list)
                /\ disk' = commit(db')
                /\ handlers' = Append(handlers,
                       Handler("add_mail", "edit", user_id, list_id, email, list_, new_list, "Success"))
    /\ UNCHANGED << message, codec >>

\* add_mail: `await query.answer(..., show_alert=True)` returns or raises
\* (both alerts): the handler ends either way.
AddMailAlerted(h) ==
    /\ h \in InFlight
    /\ handlers[h].kind = "add_mail" /\ handlers[h].pc = "alert"
    /\ handlers' = [handlers EXCEPT ![h].pc = "done"]
    /\ UNCHANGED << db, disk, update_queue, message, codec >>

\* add_mail: `await query.edit_message_text(text=new_list, ...)` returns.
AddMailEdited(h) ==
    /\ h \in InFlight
    /\ handlers[h].kind = "add_mail" /\ handlers[h].pc = "edit"
    /\ handlers' = [handlers EXCEPT ![h].pc = "answer"]
    /\ message' = [l \in DOMAIN message \cup {handlers[h].list_id} |->
                      IF l = handlers[h].list_id THEN handlers[h].new_list ELSE message[l]]
    /\ UNCHANGED << db, disk, update_queue, codec >>

\* add_mail: `await query.edit_message_text(text=new_list, ...)` raises
\* telegram.error.TelegramError: nothing in add_mail catches it, the handler
\* ends with the message as it was and query.answer() is never called.
AddMailEditRaised(h) ==
    /\ h \in InFlight
    /\ handlers[h].kind = "add_mail" /\ handlers[h].pc = "edit"
    /\ handlers' = [handlers EXCEPT ![h].pc = "done"]
    /\ UNCHANGED << db, disk, update_queue, message, codec >>

\* add_mail: the final `await query.answer()` returns or raises: the handler
\* ends either way.
AddMailAnswered(h) ==
    /\ h \in InFlight
    /\ handlers[h].kind = "add_mail" /\ handlers[h].pc = "answer"
    /\ handlers' = [handlers EXCEPT ![h].pc = "done"]
    /\ UNCHANGED << db, disk, update_queue, message, codec >>

Next ==
    \/ \E update \in Updates : Receive(update)
    \/ \E u \in UserIds, n \in 0..2, v \in Emails \cup {None} : RegisterEmail(u, n, v)
    \/ \E t \in Titles \cup {EmptyText} : CreateList(t)
    \/ \E u \in UserIds, l \in ListIdInputs : AddMail(u, l)
    \/ \E h \in 1..MaxHandlers : RegisterEmailReplied(h)
    \/ \E h \in 1..MaxHandlers : CreateListAnswered(h)
    \/ \E h \in 1..MaxHandlers : AddMailAlerted(h)
    \/ \E h \in 1..MaxHandlers : AddMailEdited(h)
    \/ \E h \in 1..MaxHandlers : AddMailAnswered(h)
    \/ \E h \in 1..MaxHandlers : CreateListAnswerRaised(h)
    \/ \E h \in 1..MaxHandlers : AddMailEditRaised(h)

Spec == Init /\ [][Next]_vars

\* ---------------------------------------------------------------- storage faults
\* How a write (execute, then commit) can fail: execute raises before
\* anything is written; commit is rejected and the transaction stays open
\* (database is locked); commit is rejected and sqlite rolls the transaction
\* back (disk full, I/O error).
WriteFaults == { "execute", "commit_busy", "commit_rollback" }

\* How add_mail's use of the database can fail: the SELECT of get_email or of
\* get_list is refused, or the write of update_list fails.
Faults == { "get_email", "get_list" } \cup WriteFaults

\* The connection after a failed write, written being what it holds once the
\* statement has been executed: nothing in the program rolls back.
FailedWrite(fault, written) ==
    IF fault = "execute" THEN db
    ELSE IF fault = "commit_busy" THEN written
    ELSE disk

\* register_email whose insert_user raises sqlite3.Error: the exception ends
\* the handler before reply_text.
RegisterEmailStorageFailure(user_id, validation, fault) ==
    /\ Dispatched(RegisterCommand(user_id, 1, validation))
    /\ update_queue' = Tail(update_queue)
    /\ validation # None
    /\ db' = FailedWrite(fault, insert_user(db, user_id, validation))
    /\ handlers' = Append(handlers,
           Handler("register_email", "done", user_id, 0, validation, None, None,
                   "StorageFailure"))
    /\ UNCHANGED << disk, message, codec >>

\* create_list whose insert_list raises sqlite3.Error: the exception ends the
\* handler before inline_query.answer; no id is returned.
CreateListStorageFailure(list_title, fault) ==
    /\ Dispatched(InlineQuery(list_title))
    /\ update_queue' = Tail(update_queue)
    /\ list_title # EmptyText
    /\ db' = FailedWrite(fault, insert_list(db, list_title).db)
    /\ handlers' = Append(handlers,
           Handler("create_list", "done", 0, 0, None, list_title, None, "StorageFailure"))
    /\ UNCHANGED << disk, message, codec >>

\* add_mail whose get_email, get_list or update_list raises sqlite3.Error: the
\* exception ends the handler there, before edit_message_text.
AddMailStorageFailure(user_id, list_id, fault) ==
    /\ Dispatched(CallbackQuery(user_id, list_id))
    /\ update_queue' = Tail(update_queue)
    /\ LET email == get_email(db, user_id)
           list_ == get_list(db, list_id)
           new_list == NewList(list_, email)
       IN  IF fault = "get_email"
           THEN /\ handlers' = Append(handlers,
                       Handler("add_mail", "done", user_id, list_id, None, None, None,
                               "StorageFailure"))
                /\ UNCHANGED db
           ELSE IF fault = "get_list"
           THEN /\ email # None
                /\ handlers' = Append(handlers,
                       Handler("add_mail", "done", user_id, list_id, email, None, None,
                               "StorageFailure"))
                /\ UNCHANGED db
           ELSE /\ email # None
                /\ list_ # ValueError
                /\ ~InLines(email, list_)
                /\ db' = FailedWrite(fault, update_list(db, list_id, new_list))
                /\ handlers' = Append(handlers,
                       Handler("add_mail", "done", user_id, list_id, email, list_, new_list,
                               "StorageFailure"))
    /\ UNCHANGED << disk, message, codec >>

NextFault ==
    \/ Next
    \/ \E u \in UserIds, v \in Emails, f \in WriteFaults : RegisterEmailStorageFailure(u, v, f)
    \/ \E t \in Titles, f \in WriteFaults : CreateListStorageFailure(t, f)
    \/ \E u \in UserIds, l \in ListIdInputs, f \in Faults : AddMailStorageFailure(u, l, f)

\* The bot on a database whose writes may fail.
FaultSpec == Init /\ [][NextFault]_vars

\* A bot restarted on the database an earlier run left: both users registered
\* with different emails, and list 1 with title "ta" that user 1 has joined
\* (its message shows the joined text).
InitFair ==
    /\ db = [user |-> { [id |-> 1, email |-> <<"a">>], [id |-> 2, email |-> <<"b">>] },
             list |-> { [id |-> 1, list |-> NewList(<<"t", "a">>, <<"a">>)] }]
    /\ disk = db
    /\ message = (1 :> NewList(<<"t", "a">>, <<"a">>))
    /\ update_queue = << >>
    /\ handlers = << >>
    /\ codec = CodecIdle

\* The event loop resumes a suspended handler once the call it awaits
\* returns, and the Application takes the next update once it is free.
Fairness ==
    /\ WF_vars(\E u \in UserIds, n \in 0..2, v \in Emails \cup {None} : RegisterEmail(u, n, v))
    /\ WF_vars(\E t \in Titles \cup {EmptyText} : CreateList(t))
    /\ WF_vars(\E u \in UserIds, l \in ListIdInputs : AddMail(u, l))
    /\ \A h \in 1..MaxHandlers :
        /\ WF_vars(RegisterEmailReplied(h))
        /\ WF_vars(CreateListAnswered(h))
        /\ WF_vars(AddMailAlerted(h))
        /\ WF_vars(AddMailEdited(h))
        /\ WF_vars(AddMailAnswered(h))

FairSpec == InitFair /\ [][Next]_vars /\ Fairness


\* ---------------------------------------------------------------- text format
\* Longest sequence of entries the format is exercised on.
MaxEntries == 2
\* Characters of an entry: letters and the line boundaries "\n" and "\r".
EntryChars == { "a", "b", "\n", "\r" }
\* Entries of one or two characters.
EntryStrings == UNION { [1..n -> EntryChars] : n \in {1, 2} }
\* Sequences of one to MaxEntries entries.
EntrySeqs == UNION { [1..n -> EntryStrings] : n \in 1..MaxEntries }

\* Any sequence of entries is to be stored; nothing else happens.
CodecInit ==
    /\ db = [user |-> {}, list |-> {}]
    /\ disk = db
    /\ update_queue = << >>
    /\ handlers = << >>
    /\ message = << >>
    /\ codec \in { [entries |-> es, stored |-> 0, text |-> None, lines |-> None] :
                      es \in EntrySeqs }

\* The first line becomes the text of the row (create_list: insert_list(list_title)).
CodecInsert ==
    /\ codec.stored = 0
    /\ codec' = [codec EXCEPT !.text = codec.entries[1], !.stored = 1]
    /\ UNCHANGED << db, disk, update_queue, handlers, message >>

\* The next entry is added as add_mail adds an email: f"{list_}\n{email}".
CodecAppend ==
    /\ codec.stored >= 1 /\ codec.stored < Len(codec.entries)
    /\ codec.lines = None
    /\ codec' = [codec EXCEPT !.text = NewList(codec.text, codec.entries[codec.stored + 1]),
                              !.stored = codec.stored + 1]
    /\ UNCHANGED << db, disk, update_queue, handlers, message >>

\* The text is read back as add_mail reads it: list_.splitlines().
CodecSplit ==
    /\ codec.stored = Len(codec.entries)
    /\ codec.lines = None
    /\ codec' = [codec EXCEPT !.lines = SplitLines(codec.text)]
    /\ UNCHANGED << db, disk, update_queue, handlers, message >>

CodecNext == CodecInsert \/ CodecAppend \/ CodecSplit

CodecSpec == CodecInit /\ [][CodecNext]_vars

\* ---------------------------------------------------------------- properties
\* The ids of the rows of table list.
ListIds == { r.id : r \in db.list }

\* The entries of a list as add_mail decodes them: the lines of its text.
Entries(list_id) == SplitLines((CHOOSE r \in db.list : r.id = list_id).list)

\* How often x occurs in a sequence.
Count(seq, x) == Cardinality({ i \in 1..Len(seq) : seq[i] = x })

\* The emails table d holds for a user.
StoredEmails(d, user_id) == { r.email : r \in { q \in d.user : q.id = user_id } }

Started == 1..Len(handlers)

\* Handler h is an add_mail that got past both lookups (an append proper).
IsAppend(h) ==
    /\ handlers[h].kind = "add_mail"
    /\ handlers[h].outcome \in {"Success", "AlreadyPresent"}

\* List l was made by a create_list of this run.
CreatedHere(l) ==
    \E c \in Started : handlers[c].kind = "create_list" /\ handlers[c].outcome = "Created"
                       /\ handlers[c].list_id = l

\* This step starts a handler of the given kind.
Starts(kind) ==
    /\ Len(handlers') = Len(handlers) + 1
    /\ handlers'[Len(handlers')].kind = kind

\* The handler a step starts.
New == handlers'[Len(handlers')]

\* C1 (as claimed): two appends by users with different emails to a list created
\* in this run, and no other append to it, leave exactly those two emails as
\* the list's entries, each once.
C1_LostUpdateFreedom ==
    \A h1, h2 \in Started :
        ( /\ h1 < h2 /\ IsAppend(h1) /\ IsAppend(h2)
          /\ handlers[h1].list_id = handlers[h2].list_id
          /\ handlers[h1].email # handlers[h2].email
          /\ CreatedHere(handlers[h1].list_id)
          /\ \A h \in Started \ {h1, h2} :
                 ~(handlers[h].kind = "add_mail" /\ handlers[h].list_id = handlers[h1].list_id) )
        => LET e == Entries(handlers[h1].list_id)
           IN  /\ Len(e) = 2
               /\ Count(e, handlers[h1].email) = 1
               /\ Count(e, handlers[h2].email) = 1

\* C2 (as claimed): no string occurs twice among the entries of a list.
C2_NoDuplicateEntries ==
    \A l \in ListIds : \A x \in Emails \cup Titles : Count(Entries(l), x) <= 1

\* C3 (as claimed): of two appends in sequence by one user to one list, with
\* no registration of that user in between, the second returns AlreadyPresent,
\* reads the text the first left, and the email is in the list exactly once.
C3_DoubleAppendIdempotent ==
    \A h \in Started :
        ( /\ h + 1 \in Started /\ IsAppend(h) /\ IsAppend(h + 1)
          /\ handlers[h].user_id = handlers[h + 1].user_id
          /\ handlers[h].list_id = handlers[h + 1].list_id )
        => /\ handlers[h + 1].outcome = "AlreadyPresent"
           /\ handlers[h + 1].list_ =
                  (IF handlers[h].outcome = "Success" THEN handlers[h].new_list
                                                      ELSE handlers[h].list_)
           /\ Count(Entries(handlers[h].list_id), handlers[h].email) = 1

\* C4: add_mail by a user without a row in table user ends NotRegistered and
\* leaves both tables as they were.
C4_UnregisteredRejection ==
    [][ (Starts("add_mail") /\ StoredEmails(db, New.user_id) = {})
        => (New.outcome = "NotRegistered" /\ db' = db) ]_vars

\* C4 witness: an unregistered user pressed the button of an existing list.
C4_Witness ==
    \E h \in Started :
        /\ handlers[h].kind = "add_mail" /\ handlers[h].outcome = "NotRegistered"
        /\ handlers[h].list_id \in ListIds
        /\ StoredEmails(db, handlers[h].user_id) = {}

\* C5: add_mail by a registered user for an id without a row in table list
\* ends at once with ListNotFound (the ValueError), makes no row and leaves
\* both tables as they were.
C5_UnknownListRejection ==
    [][ ( /\ Starts("add_mail")
          /\ StoredEmails(db, New.user_id) # {}
          /\ New.list_id \notin ListIds )
        => (New.outcome = "ListNotFound" /\ New.pc = "done" /\ db' = db) ]_vars

\* C5 witness: a registered user pressed a button of a list id that has no row,
\* while another list exists.
C5_Witness ==
    \E h \in Started :
        /\ handlers[h].kind = "add_mail" /\ handlers[h].outcome = "ListNotFound"
        /\ handlers[h].list_id \notin ListIds
        /\ ListIds # {}

\* C6: a registration leaves exactly the registered email stored for the user
\* and every other user's email as it was; no user ever has two stored emails.
C6_LastWriteWins ==
    /\ [](\A u \in UserIds : Cardinality(StoredEmails(db, u)) <= 1)
    /\ [][ (Starts("register_email") /\ New.outcome = "Registered")
           => /\ StoredEmails(db', New.user_id) = {New.email}
              /\ \A v \in UserIds \ {New.user_id} : StoredEmails(db', v) = StoredEmails(db, v) ]_vars

\* C6 witness: a user registered one email, then another; the second is stored.
C6_Witness ==
    \E h1, h2 \in Started :
        /\ h1 < h2
        /\ handlers[h1].outcome = "Registered" /\ handlers[h2].outcome = "Registered"
        /\ handlers[h1].user_id = handlers[h2].user_id
        /\ handlers[h1].email # handlers[h2].email
        /\ StoredEmails(db, handlers[h2].user_id) = {handlers[h2].email}

\* C7 (as claimed): a list made by create_list to which no append has succeeded
\* has no entries.
C7_FreshListEmpty ==
    \A c \in Started :
        ( /\ handlers[c].kind = "create_list" /\ handlers[c].outcome = "Created"
          /\ \A h \in Started : ~(handlers[h].kind = "add_mail"
                                   /\ handlers[h].list_id = handlers[c].list_id
                                   /\ handlers[h].outcome = "Success") )
        => Entries(handlers[c].list_id) = << >>

\* C8: the ids create_list returns are strictly increasing in the order of the
\* calls, and no two rows of table list share an id.
C8_FreshIncreasingIds ==
    /\ \A c1, c2 \in Started :
           ( /\ c1 < c2
             /\ handlers[c1].outcome = "Created" /\ handlers[c2].outcome = "Created" )
           => handlers[c1].list_id < handlers[c2].list_id
    /\ \A r1, r2 \in db.list : r1.id = r2.id => r1 = r2

\* C8 witness: two lists were created.
C8_Witness ==
    \E c1, c2 \in Started :
        /\ c1 < c2
        /\ handlers[c1].outcome = "Created" /\ handlers[c2].outcome = "Created"
        /\ { handlers[c1].list_id, handlers[c2].list_id } \subseteq ListIds

\* C9: a registration leaves table list, hence every list's entries, as it was.
C9_EntriesAreCopies ==
    [][ (Starts("register_email") /\ New.outcome = "Registered") => db'.list = db.list ]_vars

\* C9 witness: a user joined a list with one email, registered another one
\* afterwards, and the list still holds the first.
C9_Witness ==
    \E h1, h2 \in Started :
        /\ h1 < h2
        /\ handlers[h1].kind = "add_mail" /\ handlers[h1].outcome = "Success"
        /\ handlers[h2].outcome = "Registered"
        /\ handlers[h1].user_id = handlers[h2].user_id
        /\ handlers[h1].email # handlers[h2].email
        /\ Count(Entries(handlers[h1].list_id), handlers[h1].email) = 1
        /\ StoredEmails(db, handlers[h2].user_id) = {handlers[h2].email}

\* Two appends to one list, by users with different emails, the button press
\* of the second arriving before the first was handled to its end: concurrent
\* appends.
Concurrent(h1, h2) ==
    /\ h2 = h1 + 1 /\ IsAppend(h1) /\ IsAppend(h2)
    /\ handlers[h2].overlaps
    /\ handlers[h1].list_id = handlers[h2].list_id
    /\ handlers[h1].email # handlers[h2].email

\* C10 (as claimed, its second half): two concurrent appends to one existing
\* list by users with different registered emails both return success.
C10_BothSucceed ==
    \A h1, h2 \in Started :
        Concurrent(h1, h2)
        => (handlers[h1].outcome = "Success" /\ handlers[h2].outcome = "Success")

\* C10 (amended): no update waits forever and every handler started is
\* eventually ended for good, an add_mail with one of the four outcomes; and
\* of two concurrent appends to one existing list by users with different
\* registered emails, each returns success when its email is not yet a line of
\* the text it read and AlreadyPresent when it is; with no handler started
\* between them and neither email a line of the text the first read, both
\* return success.
C10_AppendsComplete ==
    /\ <>[](update_queue = << >>)
    /\ \A h \in 1..MaxHandlers :
           <>[](h \in Started =>
                   ( /\ handlers[h].pc = "done"
                     /\ handlers[h].kind = "add_mail" =>
                            handlers[h].outcome \in
                                {"Success", "NotRegistered", "ListNotFound", "AlreadyPresent"} ))
    /\ [](\A h1, h2 \in Started :
            Concurrent(h1, h2)
            => /\ \A h \in {h1, h2} :
                      handlers[h].outcome =
                          (IF Count(SplitLines(handlers[h].list_), handlers[h].email) = 0
                           THEN "Success" ELSE "AlreadyPresent")
               /\ ( /\ h2 = h1 + 1
                    /\ Count(SplitLines(handlers[h1].list_), handlers[h1].email) = 0
                    /\ Count(SplitLines(handlers[h1].list_), handlers[h2].email) = 0 )
                  => (handlers[h1].outcome = "Success" /\ handlers[h2].outcome = "Success"))

\* C10 witness: two concurrent appends both returned success, the second on
\* the text the first wrote, and both have ended.
C10_Witness ==
    \E h1, h2 \in Started :
        /\ Concurrent(h1, h2)
        /\ handlers[h1].outcome = "Success" /\ handlers[h2].outcome = "Success"
        /\ handlers[h1].pc = "done" /\ handlers[h2].pc = "done"
        /\ handlers[h2].list_ = handlers[h1].new_list


\* Entry e has a character and none of the given line boundaries.
Plain(e, breaks) == Len(e) >= 1 /\ \A i \in 1..Len(e) : e[i] \notin breaks

\* C11 (as claimed): entries that are non-empty and hold no "\n", joined with
\* "\n" and split into lines again, come back as they were.
C11_RoundTripNoNewline ==
    ( /\ codec.lines # None
      /\ \A i \in 1..Len(codec.entries) : Plain(codec.entries[i], {"\n"}) )
    => codec.lines = codec.entries

\* C11 (amended): entries that are non-empty and hold no line boundary of
\* str.splitlines ("\n" and "\r" here), joined with "\n" and split into lines
\* again, come back as they were, in their order.
C11_RoundTrip ==
    ( /\ codec.lines # None
      /\ \A i \in 1..Len(codec.entries) : Plain(codec.entries[i], LineBreaks) )
    => codec.lines = codec.entries

\* C11 witness: two different plain entries were stored and read back.
C11_Witness ==
    /\ codec.lines # None
    /\ Len(codec.entries) = 2
    /\ codec.entries[1] # codec.entries[2]
    /\ \A i \in 1..Len(codec.entries) : Plain(codec.entries[i], LineBreaks)
    /\ codec.lines = codec.entries


\* The text table d holds for a list id.
Text(d, list_id) == (CHOOSE r \in d.list : r.id = list_id).list

\* C12: a list's text changes only in the step of a successful add_mail for
\* that list, and that step writes the text it read from the table in the
\* same step followed by the email: no write rests on a stale read, and no
\* append is ever between its read and its write while another one writes.
C12_NoStaleWrite ==
    [][ \A l \in ListIds :
          Text(db', l) # Text(db, l)
          => /\ Starts("add_mail")
             /\ New.list_id = l /\ New.outcome = "Success"
             /\ New.list_ = Text(db, l)
             /\ New.new_list = New.list_ \o << "\n" >> \o New.email
             /\ Text(db', l) = New.new_list ]_vars

\* C12 witness: of two concurrent appends, the second, whose button press
\* arrived while the first was not yet ended, read the text the first wrote
\* and has written its own.
C12_Witness ==
    \E h1, h2 \in Started :
        /\ Concurrent(h1, h2)
        /\ handlers[h1].outcome = "Success" /\ handlers[h2].outcome = "Success"
        /\ handlers[h1].pc = "done" /\ handlers[h2].pc = "edit"
        /\ handlers[h2].list_ = handlers[h1].new_list
        /\ Text(db, handlers[h2].list_id) = handlers[h2].new_list

\* Sequence p is a prefix of sequence q.
IsPrefix(p, q) == Len(p) <= Len(q) /\ SubSeq(q, 1, Len(p)) = p

\* C13 (as claimed): a successful append leaves, and returns, the entries it
\* read followed by the caller's email as the last entry; and the entries an
\* append read are a prefix of the list's entries ever after.
C13_AppendOnly ==
    \A h \in Started :
        /\ (handlers[h].kind = "add_mail" /\ handlers[h].outcome = "Success")
           => SplitLines(handlers[h].new_list)
                  = Append(SplitLines(handlers[h].list_), handlers[h].email)
        /\ IsAppend(h)
           => IsPrefix(SplitLines(handlers[h].list_), Entries(handlers[h].list_id))

\* C14: an add_mail step leaves table user, the set of lists and the text of
\* every list other than its own as they were.
C14_OtherListsUntouched ==
    [][ Starts("add_mail")
        => /\ db'.user = db.user
           /\ { r.id : r \in db'.list } = ListIds
           /\ \A l \in ListIds \ {New.list_id} : Text(db', l) = Text(db, l) ]_vars

\* C14 witness: of two lists made in this run one was joined, and the other
\* still holds the text it was made with.
C14_Witness ==
    \E c1, c2, h \in Started :
        /\ c1 # c2
        /\ handlers[c1].outcome = "Created" /\ handlers[c2].outcome = "Created"
        /\ handlers[h].kind = "add_mail" /\ handlers[h].outcome = "Success"
        /\ handlers[h].list_id = handlers[c1].list_id
        /\ Text(db, handlers[c1].list_id) = handlers[h].new_list
        /\ Text(db, handlers[c2].list_id) = handlers[c2].list_


\* C15 (as claimed): an add_mail whose write fails does not report success, and
\* the text the file holds for a list changes only in the step of a successful
\* add_mail for that list: a failed write is never persisted, neither at once
\* nor by a later operation on the connection.
C15_FailedWriteNeverPersisted ==
    [][ /\ (Starts("add_mail") /\ New.outcome = "StorageFailure")
           => (New.pc = "done" /\ disk' = disk)
        /\ \A l \in { r.id : r \in disk.list } :
              Text(disk', l) # Text(disk, l)
              => (Starts("add_mail") /\ New.outcome = "Success" /\ New.list_id = l) ]_vars

\* C16 (as claimed): every entry of a list made in this run is the email a successful add_mail
\* for that list read from the user table and wrote; no entry has another
\* source.
C16_EntryProvenance ==
    \A l \in { k \in ListIds : CreatedHere(k) } : \A i \in 1..Len(Entries(l)) :
        \E h \in Started :
            /\ handlers[h].kind = "add_mail" /\ handlers[h].outcome = "Success"
            /\ handlers[h].list_id = l
            /\ handlers[h].email = Entries(l)[i]

\* C17: the title create_list stored for a list stays at the head of the
\* list's text in every later state, character for character, whatever
\* add_mail handlers run on that list or on others.
C17_TitleImmutable ==
    \A c \in Started :
        (handlers[c].kind = "create_list" /\ handlers[c].outcome = "Created")
        => IsPrefix(handlers[c].list_, Text(db, handlers[c].list_id))

\* Two lists made in this run, one of them appended to since.
C17_Witness ==
    \E c1, c2, h \in Started :
        /\ c1 # c2 /\ c1 < h
        /\ handlers[c1].kind = "create_list" /\ handlers[c1].outcome = "Created"
        /\ handlers[c2].kind = "create_list" /\ handlers[c2].outcome = "Created"
        /\ handlers[h].kind = "add_mail" /\ handlers[h].outcome = "Success"
        /\ handlers[h].list_id = handlers[c1].list_id
        /\ Text(db, handlers[c1].list_id) # handlers[c1].list_

\* C18: an add_mail by a user without a row in the user table ends as
\* NotRegistered whether or not the list exists, never as ListNotFound; it has
\* read no list text and leaves the database as it was.
C18_RegistrationCheckFirst ==
    [][ (Starts("add_mail") /\ StoredEmails(db, New.user_id) = {})
        => /\ New.outcome = "NotRegistered"
           /\ New.list_ = None /\ New.new_list = None
           /\ db' = db ]_vars

\* An unregistered user's add_mail on a list id that does not exist.
C18_Witness ==
    \E h \in Started :
        /\ handlers[h].kind = "add_mail" /\ handlers[h].outcome = "NotRegistered"
        /\ handlers[h].list_id \notin ListIds

\* C19 (as claimed): a successful add_mail hands to edit_message_text the text
\* it wrote to the table; and once every add_mail for a list has ended, the
\* text the list's message shows is the list's stored text.
C19_RenderedIsStored ==
    /\ \A h \in Started :
          (handlers[h].kind = "add_mail" /\ handlers[h].outcome = "Success")
          => handlers[h].new_list = NewList(handlers[h].list_, handlers[h].email)
    /\ \A l \in ListIds :
          ( /\ \E h \in Started : /\ handlers[h].kind = "add_mail"
                                  /\ handlers[h].outcome = "Success"
                                  /\ handlers[h].list_id = l
            /\ \A h \in InFlight : handlers[h].kind = "add_mail" => handlers[h].list_id # l )
          => (l \in DOMAIN message /\ message[l] = Text(db, l))

====
